---------------------------- MODULE Spec2Model ----------------------------
(***************************************************************************)
(* Model of the Monte Carlo call-pricing example of                        *)
(* docs/Performance_gottagofaster.ipynb: the looped and the vectorised     *)
(* pricing function, their numba-compiled redefinitions, the process-wide  *)
(* random generator they draw from, and the notebook's code cells.         *)
(*                                                                         *)
(* Numbers.  A float is modelled as an extended rational <<num, den>>:     *)
(* den > 0 is a finite value in lowest terms, <<1,0>> is +inf, <<-1,0>> is *)
(* -inf and <<0,0>> is nan, combined by the IEEE-754 rules for inf and     *)
(* nan.  Finite arithmetic is exact: rounding, signed zeros and the range  *)
(* of sums and products are abstracted away, so "equal" below means equal  *)
(* up to floating-point rounding.  exp is the power of a fixed base (a     *)
(* factor 2 per half unit) on arguments that are multiples of 1/2, and     *)
(* saturates to +inf / 0 outside the exponent range MaxExp as the double   *)
(* format does outside [-745, 709].  Only exp(0) = 1,                      *)
(* exp(a+b) = exp(a)*exp(b), monotonicity and saturation are relied on.    *)
(* sqrt is exact on the perfect squares the maturities are drawn from.     *)
(***************************************************************************)
EXTENDS Integers, Sequences, FiniteSets, TLC

\* ------------------------------------------------------------ bounds
\* Largest path count a call is given.
MaxN == 3
\* Period of the modelled pseudo-random generator (its cycle length).
Period == 3
\* exp saturates when its argument exceeds MaxExp half units in magnitude.
MaxExp == 8

\* The values a standard-normal draw takes in the model.
Shocks == {-1, 0, 2}

\* --------------------------------------------------- extended rationals
Inf == <<1, 0>>
NegInf == <<-1, 0>>
NaN == <<0, 0>>
Zero == <<0, 1>>
One == <<1, 1>>
Half == <<1, 2>>

Abs(a) == IF a < 0 THEN -a ELSE a

Sgn(a) == IF a > 0 THEN 1 ELSE IF a < 0 THEN -1 ELSE 0

RECURSIVE GCD(_, _)
GCD(a, b) == IF b = 0 THEN a ELSE GCD(b, a % b)

\* The finite value a/b (b # 0) in lowest terms with a positive denominator.
Norm(a, b) ==
    LET g == GCD(Abs(a), Abs(b))
        s == Sgn(b)
    IN  <<(s * a) \div g, Abs(b) \div g>>

\* A Python int (or float literal) as a float.
F(a) == <<a, 1>>

IsNaN(x) == x = NaN

IsInf(x) == x[2] = 0 /\ x[1] # 0

IsFinite(x) == x[2] # 0

Neg(x) == <<-x[1], x[2]>>

Add(x, y) ==
    IF IsNaN(x) \/ IsNaN(y) THEN NaN
    ELSE IF IsInf(x) THEN (IF IsInf(y) /\ y # x THEN NaN ELSE x)
    ELSE IF IsInf(y) THEN y
    ELSE Norm(x[1] * y[2] + y[1] * x[2], x[2] * y[2])

Sub(x, y) == Add(x, Neg(y))

Mul(x, y) ==
    IF IsNaN(x) \/ IsNaN(y) THEN NaN
    ELSE IF IsInf(x) \/ IsInf(y)
         THEN (IF x[1] = 0 \/ y[1] = 0 THEN NaN
               ELSE <<Sgn(x[1]) * Sgn(y[1]), 0>>)
    ELSE Norm(x[1] * y[1], x[2] * y[2])

\* IEEE division; a zero divisor is +0.0 (the only divisor in the code is n).
Div(x, y) ==
    IF IsNaN(x) \/ IsNaN(y) THEN NaN
    ELSE IF IsInf(y) THEN (IF IsInf(x) THEN NaN ELSE Zero)
    ELSE IF y[1] = 0 THEN (IF x[1] = 0 THEN NaN ELSE <<Sgn(x[1]), 0>>)
    ELSE IF IsInf(x) THEN <<Sgn(x[1]) * Sgn(y[1]), 0>>
    ELSE Norm(x[1] * y[2], x[2] * y[1])

\* x > y; every comparison with nan is false.
Gt(x, y) ==
    IF IsNaN(x) \/ IsNaN(y) \/ x = y THEN FALSE
    ELSE IF IsInf(x) THEN x = Inf
    ELSE IF IsInf(y) THEN y = NegInf
    ELSE x[1] * y[2] > y[1] * x[2]

\* A numpy bool as a factor: True is 1.0, False is 0.0.
B2F(b) == IF b THEN One ELSE Zero

\* np.exp, on multiples of 1/2.
Exp(x) ==
    IF IsNaN(x) THEN NaN
    ELSE IF x = Inf THEN Inf
    ELSE IF x = NegInf THEN Zero
    ELSE LET h == (2 * x[1]) \div x[2]
         IN  IF h > MaxExp THEN Inf
             ELSE IF h < -MaxExp THEN Zero
             ELSE IF h >= 0 THEN <<2 ^ h, 1>>
             ELSE <<1, 2 ^ (-h)>>

\* np.sqrt, on perfect squares; nan for a negative argument.
Sqrt(x) ==
    IF IsNaN(x) \/ Gt(Zero, x) THEN NaN
    ELSE IF x = Inf THEN Inf
    ELSE <<CHOOSE s \in 0..x[1] : s * s = x[1],
           CHOOSE s \in 1..x[2] : s * s = x[2]>>

RECURSIVE SumSeq(_)
SumSeq(a) == IF a = <<>> THEN Zero ELSE Add(SumSeq(SubSeq(a, 1, Len(a) - 1)), a[Len(a)])

\* ------------------------------------------------------- call arguments
\* The parameter values a call is given; the first value of SVals, KVals and
\* TVals and of SgmVals, and the non-positive path counts, are the invalid ones.
SVals == {0, 1, 2}
KVals == {-1, 1, 2}
SgmVals == {-1, 0, 1}
RVals == {-1, 1}
TVals == {-1, 1, 4}
NVals == (-1)..MaxN

\* The spec's validity rule for a request (the code never tests it).
Valid(a) ==
    a.S > 0 /\ a.K > 0 /\ a.T > 0 /\ a.sgm >= 0 /\ a.n >= 1

InvalidFields(a) ==
    {f \in {"S", "K", "T"} : a[f] <= 0}
        \cup (IF a.sgm < 0 THEN {"sgm"} ELSE {})
        \cup (IF a.n < 1 THEN {"n"} ELSE {})

\* Argument records: every valid one, and every one with a single invalid field.
Args ==
    {a \in [S : SVals, K : KVals, sgm : SgmVals, r : RVals, T : TVals, n : NVals] :
        Cardinality(InvalidFields(a)) <= 1}

\* ------------------------------------------------------ the generator
\* The pseudo-random generator is a fixed cycle of shocks (stream) and a
\* position in it; a draw returns the shock at the position and advances it.
Streams == [1..Period -> Shocks]

Draw(stream, g) == stream[g + 1]

Advance(g) == (g + 1) % Period

\* np.random.standard_normal(k): the next k draws from position g.
standard_normal(stream, g, k) ==
    [j \in 1..k |-> stream[((g + j - 1) % Period) + 1]]

\* ------------------------------------------------- the pricing functions
NoResult == [kind |-> "none", val |-> NaN]
Raised == [kind |-> "raise", val |-> NaN]
Returned(v) == [kind |-> "price", val |-> v]

\* Mutant: the diffusion term loses its factor sgm.
ST_no_sgm(a, w) ==
    Mul(F(a.S),
        Exp(Add(Mul(Sub(F(a.r), Mul(Half, Mul(F(a.sgm), F(a.sgm)))), F(a.T)),
                Mul(Sqrt(F(a.T)), F(w)))))

\* ST = S*np.exp((r-0.5*sgm**2)*T+sgm*np.sqrt(T)*w)
ST(a, w) ==
    Mul(F(a.S),
        Exp(Add(Mul(Sub(F(a.r), Mul(Half, Mul(F(a.sgm), F(a.sgm)))), F(a.T)),
                Mul(Mul(F(a.sgm), Sqrt(F(a.T))), F(w)))))

\* Mutant: the payoff is not floored at zero.
payoff_unmasked(a, w) == Sub(ST(a, w), F(a.K))

\* payoff = ST-K; payoff = payoff*(payoff>0)
payoff(a, w) ==
    LET p == Sub(ST(a, w), F(a.K))
    IN  Mul(p, B2F(Gt(p, Zero)))

\* The element-wise payoff of an array of shocks.
payoffs(a, w) == [j \in 1..Len(w) |-> payoff(a, w[j])]

\* np.exp(-r*T)
discount(a) == Exp(Mul(Neg(F(a.r)), F(a.T)))

\* Mutant: the average divides by count - 1.
np_average_sample(arr) == Div(SumSeq(arr), F(Len(arr) - 1))

\* np.average(payoff): sum over count; nan for an empty array.
np_average(arr) == Div(SumSeq(arr), F(Len(arr)))

\* np.mean(payoff), which the compiled vectorised function uses.
np_mean(arr) == Div(SumSeq(arr), F(Len(arr)))

\* price = np.exp(-r*T) * payoff_sim / n
loop_price(a, sim) == Div(Mul(discount(a), sim), F(a.n))

\* The shocks a looped call draws: one per iteration of range(n).
loop_draws(a, stream, g) == standard_normal(stream, g, IF a.n > 0 THEN a.n ELSE 0)

\* mcBScall_loop as a function of its arguments and the generator state.
mcBScall_loop(a, stream, g) ==
    Returned(loop_price(a, SumSeq(payoffs(a, loop_draws(a, stream, g)))))

\* mcBScall_vect; standard_normal(n) raises ValueError for a negative n.
mcBScall_vect(a, stream, g) ==
    IF a.n < 0 THEN Raised
    ELSE Returned(Mul(discount(a), np_average(payoffs(a, standard_normal(stream, g, a.n)))))

\* The compiled mcBScall_loop: numba's float division raises ZeroDivisionError.
mcBScall_loop_jit(a, stream, g) ==
    IF a.n = 0 THEN Raised ELSE mcBScall_loop(a, stream, g)

\* The compiled mcBScall_vect, for a non-empty array.
mcBScall_vect_jit(a, stream, g) ==
    IF a.n < 0 THEN Raised
    ELSE Returned(Mul(discount(a), np_mean(payoffs(a, standard_normal(stream, g, a.n)))))

\* ------------------------------------------------------------- state
VARIABLES
    args,        \* the arguments S, K, sgm, r, T, n a call is given
    stream,      \* the generator's cycle
    rng,         \* np.random: the position of the process-wide generator
    \* one call of each function on the same arguments and generator state
    phase,       \* which function the driver applies next
    i,           \* mcBScall_loop: iterations of range(n) completed
    payoff_sim,  \* mcBScall_loop: the running sum
    ws,          \* history: the shocks the loop has drawn, in order
    ret_loop,    \* what mcBScall_loop returned
    ret_vect,    \* what mcBScall_vect returned
    ws_vect,     \* history: the shocks mcBScall_vect drew
    chunks_loop, \* history: the size of each draw request the loop made
    chunks_vect, \* history: the size of each draw request mcBScall_vect made
    ret_loop_jit,
    ret_vect_jit,
    \* two invocations of mcBScall_loop in one process
    runs,        \* the frame of each invocation
    overlapped,  \* history: the two invocations were active at the same time
    \* the notebook session
    cell,        \* the next code cell to execute, in document order
    kernel,      \* the kernel's global names
    nb_rng,      \* the position of numba's own generator
    printed      \* the output of the cells that print a price

callVars == <<phase, i, payoff_sim, ws, ret_loop, ret_vect, ws_vect, chunks_loop,
              chunks_vect, ret_loop_jit, ret_vect_jit>>
runVars == <<runs, overlapped>>
nbVars == <<cell, kernel, nb_rng, printed>>
vars == <<args, stream, rng, callVars, runVars, nbVars>>

Runs == {"A", "B"}

IdleFrame ==
    [pc |-> "idle", i |-> 0, payoff_sim |-> Zero, ws |-> <<>>, g0 |-> 0, ret |-> NoResult]

EmptyKernel ==
    [mcBScall_loop |-> "undefined", mcBScall_vect |-> "undefined",
     spot |-> 0, strike |-> 0, vol |-> 0, r |-> 0, T |-> 0, n |-> 0,
     callprice |-> NoResult, callprice2 |-> NoResult]

CallInit ==
    /\ phase = "loop"
    /\ i = 0
    /\ payoff_sim = Zero
    /\ ws = <<>>
    /\ ret_loop = NoResult
    /\ ret_vect = NoResult
    /\ ws_vect = <<>>
    /\ chunks_loop = <<>>
    /\ chunks_vect = <<>>
    /\ ret_loop_jit = NoResult
    /\ ret_vect_jit = NoResult

RunInit ==
    /\ runs = [p \in Runs |-> IdleFrame]
    /\ overlapped = FALSE

NotebookInit ==
    /\ cell = 1
    /\ kernel = EmptyKernel
    /\ printed = <<>>

\* Each function is applied to the same arguments from the same generator
\* state (position 0 of the stream); payoff_sim = 0.0 on entry to the loop.
Init ==
    /\ args \in Args
    /\ stream \in Streams
    /\ rng = 0
    /\ CallInit
    /\ RunInit
    /\ NotebookInit /\ nb_rng = 0

\* Mutant: the iteration assigns the payoff instead of adding it.
loop_iter_assign ==
    /\ phase = "loop"
    /\ i < args.n
    /\ LET w == Draw(stream, rng)
       IN  /\ payoff_sim' = payoff(args, w)
           /\ ws' = Append(ws, w)
    /\ chunks_loop' = Append(chunks_loop, 1)
    /\ rng' = Advance(rng)
    /\ i' = i + 1
    /\ UNCHANGED <<args, stream, phase, ret_loop, ret_vect, ws_vect, chunks_vect,
                   ret_loop_jit, ret_vect_jit, runVars, nbVars>>

\* One iteration of `for i in range(n)`: draw w, add the masked payoff.
loop_iter ==
    /\ phase = "loop"
    /\ i < args.n
    /\ LET w == Draw(stream, rng)
       IN  /\ payoff_sim' = Add(payoff_sim, payoff(args, w))
           /\ ws' = Append(ws, w)
    /\ chunks_loop' = Append(chunks_loop, 1)
    /\ rng' = Advance(rng)
    /\ i' = i + 1
    /\ UNCHANGED <<args, stream, phase, ret_loop, ret_vect, ws_vect, chunks_vect,
                   ret_loop_jit, ret_vect_jit, runVars, nbVars>>

\* range(n) is exhausted: compute the price and return it.
loop_return ==
    /\ phase = "loop"
    /\ ~(i < args.n)
    /\ ret_loop' = Returned(loop_price(args, payoff_sim))
    /\ phase' = "vect"
    /\ UNCHANGED <<args, stream, rng, i, payoff_sim, ws, ret_vect, ws_vect, chunks_loop,
                   chunks_vect, ret_loop_jit, ret_vect_jit, runVars, nbVars>>

\* Mutant: the vectorised function requests one shock too many.
vect_call_extra ==
    /\ phase = "vect"
    /\ ret_vect' = mcBScall_vect(args, stream, 0)
    /\ ws_vect' = (IF args.n < 0 THEN <<>> ELSE standard_normal(stream, 0, args.n + 1))
    /\ chunks_vect' = (IF args.n < 0 THEN <<>> ELSE <<args.n + 1>>)
    /\ phase' = "loop_jit"
    /\ UNCHANGED <<args, stream, rng, i, payoff_sim, ws, ret_loop, chunks_loop,
                   ret_loop_jit, ret_vect_jit, runVars, nbVars>>

\* mcBScall_vect, straight-line code, applied as one step from the generator
\* state the loop started in.
vect_call ==
    /\ phase = "vect"
    /\ ret_vect' = mcBScall_vect(args, stream, 0)
    /\ ws_vect' = (IF args.n < 0 THEN <<>> ELSE standard_normal(stream, 0, args.n))
    /\ chunks_vect' = (IF args.n < 0 THEN <<>> ELSE <<args.n>>)
    /\ phase' = "loop_jit"
    /\ UNCHANGED <<args, stream, rng, i, payoff_sim, ws, ret_loop, chunks_loop,
                   ret_loop_jit, ret_vect_jit, runVars, nbVars>>

\* The compiled loop, applied as one step from the same generator state.
loop_jit_call ==
    /\ phase = "loop_jit"
    /\ ret_loop_jit' = mcBScall_loop_jit(args, stream, 0)
    /\ phase' = "vect_jit"
    /\ UNCHANGED <<args, stream, rng, i, payoff_sim, ws, ret_loop, ret_vect, ws_vect,
                   chunks_loop, chunks_vect, ret_vect_jit, runVars, nbVars>>

\* The compiled vectorised function; on an empty array numba's mean either
\* yields nan or raises, depending on the build.
vect_jit_call ==
    /\ phase = "vect_jit"
    /\ \/ ret_vect_jit' = mcBScall_vect_jit(args, stream, 0)
       \/ args.n = 0 /\ ret_vect_jit' = Raised
    /\ phase' = "end"
    /\ UNCHANGED <<args, stream, rng, i, payoff_sim, ws, ret_loop, ret_vect, ws_vect,
                   chunks_loop, chunks_vect, ret_loop_jit, runVars, nbVars>>

Next == loop_iter \/ loop_return \/ vect_call \/ loop_jit_call \/ vect_jit_call

Spec == Init /\ [][Next]_vars

\* --------------------------------------- two invocations in one process
\* Both invocations are given the same valid arguments; the generator is the
\* one process-wide np.random.
SharedInit ==
    /\ args \in {a \in Args : Valid(a)}
    /\ stream \in Streams
    /\ rng = 0
    /\ phase = "off" /\ i = 0 /\ payoff_sim = Zero /\ ws = <<>> /\ ws_vect = <<>>
    /\ ret_loop = NoResult /\ ret_vect = NoResult
    /\ chunks_loop = <<>> /\ chunks_vect = <<>>
    /\ ret_loop_jit = NoResult /\ ret_vect_jit = NoResult
    /\ RunInit
    /\ NotebookInit /\ nb_rng = 0

\* Entry to mcBScall_loop: payoff_sim = 0.0.
run_call(p) ==
    /\ runs[p].pc = "idle"
    /\ runs' = [runs EXCEPT ![p] = [IdleFrame EXCEPT !.pc = "iter", !.g0 = rng]]
    /\ overlapped' = (overlapped \/ \E q \in Runs \ {p} : runs[q].pc = "iter")
    /\ UNCHANGED <<args, stream, rng, callVars, nbVars>>

\* One iteration of the loop of invocation p, drawing from np.random.
run_iter(p) ==
    /\ runs[p].pc = "iter"
    /\ runs[p].i < args.n
    /\ LET w == Draw(stream, rng)
       IN  runs' = [runs EXCEPT ![p].payoff_sim = Add(@, payoff(args, w)),
                                ![p].ws = Append(@, w),
                                ![p].i = @ + 1]
    /\ rng' = Advance(rng)
    /\ UNCHANGED <<args, stream, overlapped, callVars, nbVars>>

\* Invocation p computes its price and returns.
run_return(p) ==
    /\ runs[p].pc = "iter"
    /\ ~(runs[p].i < args.n)
    /\ runs' = [runs EXCEPT ![p].ret = Returned(loop_price(args, runs[p].payoff_sim)),
                            ![p].pc = "done"]
    /\ UNCHANGED <<args, stream, rng, overlapped, callVars, nbVars>>

SharedNext == \E p \in Runs : run_call(p) \/ run_iter(p) \/ run_return(p)

SharedSpec == SharedInit /\ [][SharedNext]_vars

\* ------------------------------------------------- the notebook session
\* The literals of the second code cell (spot = 100, strike = 110, vol = 0.45,
\* r = 0.02, T = 1.5, n = 500000) are drawn from the valid argument records.
NotebookSpecInit ==
    /\ args \in {a \in Args : Valid(a)}
    /\ stream \in Streams
    /\ rng = 0
    /\ nb_rng \in 0..(Period - 1)
    /\ phase = "off" /\ i = 0 /\ payoff_sim = Zero /\ ws = <<>> /\ ws_vect = <<>>
    /\ ret_loop = NoResult /\ ret_vect = NoResult
    /\ chunks_loop = <<>> /\ chunks_vect = <<>>
    /\ ret_loop_jit = NoResult /\ ret_vect_jit = NoResult
    /\ RunInit
    /\ NotebookInit

\* The arguments of a call `f(spot, strike, vol, r, T, n)`.
CallArgs == [S |-> kernel.spot, K |-> kernel.strike, sgm |-> kernel.vol,
             r |-> kernel.r, T |-> kernel.T, n |-> kernel.n]

\* A line `print(f'The call price is {value} based on {n} simulations')` of
\* cell c; call is what the pricing call of that cell returned.
Output(c, value, call) == [cell |-> c, price |-> value, call |-> call]

\* Generator position after a call that drew k shocks.
After(g, k) == (g + k) % Period

\* Cell 1: import numpy; def mcBScall_loop.
cell_def_loop ==
    /\ cell = 1
    /\ kernel' = [kernel EXCEPT !.mcBScall_loop = "python"]
    /\ cell' = 2
    /\ UNCHANGED <<args, stream, rng, nb_rng, printed, callVars, runVars>>

\* Cell 2: set the parameters, callprice = mcBScall_loop(...), print callprice.
cell_run_loop ==
    /\ cell = 2
    /\ LET a == args
           ret == mcBScall_loop(a, stream, rng)
       IN  /\ kernel' = [kernel EXCEPT !.spot = a.S, !.strike = a.K, !.vol = a.sgm,
                                       !.r = a.r, !.T = a.T, !.n = a.n,
                                       !.callprice = ret]
           /\ printed' = Append(printed, Output(2, ret, ret))
           /\ rng' = After(rng, a.n)
    /\ cell' = 3
    /\ UNCHANGED <<args, stream, nb_rng, callVars, runVars>>

\* Cell 3: def mcBScall_vect.
cell_def_vect ==
    /\ cell = 3
    /\ kernel' = [kernel EXCEPT !.mcBScall_vect = "python"]
    /\ cell' = 4
    /\ UNCHANGED <<args, stream, rng, nb_rng, printed, callVars, runVars>>

\* Cell 4: callprice2 = mcBScall_vect(...), then print callprice.
cell_run_vect ==
    /\ cell = 4
    /\ LET ret == mcBScall_vect(CallArgs, stream, rng)
       IN  /\ kernel' = [kernel EXCEPT !.callprice2 = ret]
           /\ printed' = Append(printed, Output(4, kernel.callprice, ret))
           /\ rng' = After(rng, kernel.n)
    /\ cell' = 5
    /\ UNCHANGED <<args, stream, nb_rng, callVars, runVars>>

\* Cell 5: redefine mcBScall_loop under @jit and call it once into callprice.
cell_def_loop_jit ==
    /\ cell = 5
    /\ kernel' = [kernel EXCEPT !.mcBScall_loop = "jit",
                                !.callprice = mcBScall_loop_jit(CallArgs, stream, nb_rng)]
    /\ nb_rng' = After(nb_rng, kernel.n)
    /\ cell' = 6
    /\ UNCHANGED <<args, stream, rng, printed, callVars, runVars>>

\* Cell 6: callprice = mcBScall_loop(...) (compiled), print callprice.
cell_run_loop_jit ==
    /\ cell = 6
    /\ LET ret == mcBScall_loop_jit(CallArgs, stream, nb_rng)
       IN  /\ kernel' = [kernel EXCEPT !.callprice = ret]
           /\ printed' = Append(printed, Output(6, ret, ret))
    /\ nb_rng' = After(nb_rng, kernel.n)
    /\ cell' = 7
    /\ UNCHANGED <<args, stream, rng, callVars, runVars>>

\* Cell 7: redefine mcBScall_vect under @jit and call it once into callprice.
cell_def_vect_jit ==
    /\ cell = 7
    /\ kernel' = [kernel EXCEPT !.mcBScall_vect = "jit",
                                !.callprice = mcBScall_vect_jit(CallArgs, stream, nb_rng)]
    /\ nb_rng' = After(nb_rng, kernel.n)
    /\ cell' = 8
    /\ UNCHANGED <<args, stream, rng, printed, callVars, runVars>>

\* Cell 8: callprice = mcBScall_vect(...) (compiled), print callprice.
cell_run_vect_jit ==
    /\ cell = 8
    /\ LET ret == mcBScall_vect_jit(CallArgs, stream, nb_rng)
       IN  /\ kernel' = [kernel EXCEPT !.callprice = ret]
           /\ printed' = Append(printed, Output(8, ret, ret))
    /\ nb_rng' = After(nb_rng, kernel.n)
    /\ cell' = 9
    /\ UNCHANGED <<args, stream, rng, callVars, runVars>>

NotebookNext ==
    \/ cell_def_loop \/ cell_run_loop \/ cell_def_vect \/ cell_run_vect
    \/ cell_def_loop_jit \/ cell_run_loop_jit \/ cell_def_vect_jit \/ cell_run_vect_jit

NotebookSpec == NotebookSpecInit /\ [][NotebookNext]_vars

\* ------------------------------------------------------------- claims
\* max(ST - K, 0) as the specification writes it.
MaxPayoff(a, w) ==
    LET st == ST(a, w)
    IN  IF Gt(st, F(a.K)) THEN Sub(st, F(a.K)) ELSE Zero

MaxPayoffs(a, w) == [j \in 1..Len(w) |-> MaxPayoff(a, w[j])]

Ceil(a, b) == (a + b - 1) \div b

RECURSIVE SumInts(_)
SumInts(q) == IF q = <<>> THEN 0 ELSE q[1] + SumInts(Tail(q))

\* A run of n paths in chunks of size c: ceil(n/c) chunks, all of size c but
\* possibly the last, which is no larger, the sizes summing to n.
ChunksOK(ch, c, total) ==
    /\ Len(ch) = Ceil(total, c)
    /\ \A j \in 1..(Len(ch) - 1) : ch[j] = c
    /\ ch[Len(ch)] \in 1..c
    /\ SumInts(ch) = total

LoopDone == ret_loop.kind # "none"
VectDone == ret_vect.kind # "none"

\* C1: for every parameter set, every n >= 1 and every shock sequence, the
\* looped and the vectorised function fed the same shocks return the same
\* price, and each compiled variant returns the price of its uncompiled
\* counterpart.
C1_StrategiesAgree ==
    args.n >= 1 =>
        /\ VectDone => ws_vect = ws /\ ret_loop.kind = "price" /\ ret_vect = ret_loop
        /\ ret_loop_jit.kind # "none" => ret_loop_jit = ret_loop
        /\ ret_vect_jit.kind # "none" => ret_vect_jit = ret_vect

C1_Witness ==
    /\ phase = "end" /\ Valid(args) /\ args.n >= 2
    /\ payoff(args, ws[1]) # payoff(args, ws[2])
    /\ IsFinite(ret_loop.val) /\ Gt(ret_loop.val, Zero)
    /\ ret_vect = ret_loop /\ ret_vect_jit = ret_loop_jit

\* C2: for valid market parameters each path's payoff is max(ST - K, 0) (ST - K
\* when ST > K, otherwise 0, never negative), and the returned price is the
\* discount factor applied to the arithmetic mean of the n payoffs, hence never
\* negative.
C2_PayoffAndPrice ==
    Valid(args) =>
        /\ \A j \in 1..Len(ws) :
              /\ payoff(args, ws[j]) = MaxPayoff(args, ws[j])
              /\ ~Gt(Zero, payoff(args, ws[j]))
        /\ payoff_sim = SumSeq(MaxPayoffs(args, ws))
        /\ \A ret \in {ret_loop, ret_vect, ret_loop_jit, ret_vect_jit} :
              ret.kind # "none" =>
                  /\ ret.kind = "price"
                  /\ ret.val = Mul(discount(args),
                                   Div(SumSeq(MaxPayoffs(args, ws)), F(args.n)))
                  /\ ~Gt(Zero, ret.val)

C2_Witness ==
    /\ Valid(args) /\ phase = "end"
    /\ \E j, k \in 1..Len(ws) :
          /\ Gt(F(args.K), ST(args, ws[j])) /\ payoff(args, ws[j]) = Zero
          /\ Gt(ST(args, ws[k]), F(args.K)) /\ Gt(payoff(args, ws[k]), Zero)
    /\ IsFinite(ret_vect.val) /\ Gt(ret_vect.val, Zero)

DetPrice(a) ==
    LET v == Sub(F(a.S), Mul(F(a.K), discount(a)))
    IN  IF Gt(v, Zero) THEN v ELSE Zero

\* The same value written exp(-rT) * max(S*exp(rT) - K, 0).
DetPriceFwd(a) ==
    LET v == Sub(Mul(F(a.S), Exp(Mul(F(a.r), F(a.T)))), F(a.K))
    IN  Mul(discount(a), IF Gt(v, Zero) THEN v ELSE Zero)

C9_State ==
    /\ i >= 0
    /\ args.n >= 0 => i <= args.n
    /\ ws = standard_normal(stream, 0, i)
    /\ payoff_sim = SumSeq(payoffs(args, ws))
    /\ ~Gt(Zero, payoff_sim)
    /\ (LoopDone /\ args.n >= 0) => (i = args.n /\ Len(ws) = args.n)
    /\ LoopDone <=> phase # "loop"

C9_Step ==
    /\ args' = args
    /\ ~Gt(payoff_sim, payoff_sim')
    /\ (i' # i) => (i' = i + 1 /\ Len(ws') = Len(ws) + 1 /\ ~LoopDone)

\* C9: in mcBScall_loop, when i iterations are complete exactly the first i
\* shocks of the generator have been drawn and payoff_sim is the sum of their
\* payoffs; payoff_sim never decreases and is never negative; the arguments are
\* never changed; each iteration advances i by one, i never exceeds n, and for
\* n >= 0 the price is computed only once exactly n iterations and n draws
\* have been made.
C9_LoopInvariant ==
    [][C9_State /\ C9_Step]_vars

C9_Witness ==
    /\ phase = "loop" /\ args.n = 3 /\ i = 2
    /\ Gt(payoff(args, ws[1]), Zero) /\ Gt(payoff(args, ws[2]), Zero)
    /\ payoff_sim = Add(payoff(args, ws[1]), payoff(args, ws[2]))

\* C3: a request with an invalid parameter draws no shock and returns no price.
C3_InvalidRejected ==
    ~Valid(args) =>
        /\ ws = <<>> /\ ws_vect = <<>>
        /\ \A ret \in {ret_loop, ret_vect, ret_loop_jit, ret_vect_jit} :
              ret.kind # "price"

\* C7: a run of a valid request in which a payoff is not finite returns no
\* price: every price returned is finite.
C7_NonFiniteNotReturned ==
    Valid(args) =>
        \A ret \in {ret_loop, ret_vect, ret_loop_jit, ret_vect_jit} :
            ret.kind = "price" => IsFinite(ret.val)

RunDone(p) == runs[p].pc = "done"

\* C4: two invocations with the same arguments, made one after the other, draw
\* the same sequence of shocks and return the same price.
C4_RepeatIdentical ==
    (RunDone("A") /\ RunDone("B") /\ ~overlapped) =>
        /\ runs["A"].ws = runs["B"].ws
        /\ runs["A"].ret = runs["B"].ret

\* C8: an invocation, whatever the other one does meanwhile, receives the
\* shocks and returns the price it would have running alone from the generator
\* state it started in.
C8_RunsIsolated ==
    \A p \in Runs :
        RunDone(p) =>
            /\ runs[p].ws = loop_draws(args, stream, runs[p].g0)
            /\ runs[p].ret = mcBScall_loop(args, stream, runs[p].g0)

\* C10: every cell that runs a pricing function and prints the call price
\* prints the value its own pricing call returned.
C10_PrintsOwnResult ==
    \A j \in 1..Len(printed) : printed[j].price = printed[j].call

=============================================================================
